---- MODULE Spec2Model ----
(***************************************************************************)
(* Model of the GwasServiceFHE ledger contract                             *)
(* (contracts/GwasServiceFHE.sol) and of the web client's dataset handlers *)
(* (frontend/web/src/App.tsx).  Every public function of the contract      *)
(* is one action; a call that reverts leaves the contract storage as it    *)
(* was and is recorded, with its revert reason, in lastCall.               *)
(*                                                                         *)
(* An euint32 ciphertext handle is modelled by the uint32 it decrypts to.  *)
(* The decryption oracle of the FHE library is the environment: it numbers *)
(* the requests, keeps the handles of each request, and a proof verifies   *)
(* for a request exactly when it is the KMS signature over the cleartexts  *)
(* those handles decrypt to.                                               *)
(***************************************************************************)
EXTENDS Integers, Sequences, FiniteSets, TLC

\* ---------------------------------------------------------------- bounds
MaxDatasets == 2
MaxRequests == 2

\* ------------------------------------------------------------- constants
\* A uint32 is kept at its full width as two 16-bit limbs <<hi, lo>>, its
\* value being hi * 2^16 + lo: the model checker's own integers are narrower
\* than the sums and products the contract forms.
LimbBase == 256 * 256
HalfLimb == 16 * 16

Uint32(hi, lo) == <<hi, lo>>
Zero32 == Uint32(0, 0)

\* Sample ciphertext contents, as <<genotype, phenotype>>: 2 and 3, whose sum
\* and product fit in a uint32, and 2^31 and 2^31, whose sum and product do
\* not.
PayloadSamples ==
    {<<Uint32(0, 2), Uint32(0, 3)>>,
     <<Uint32(LimbBase \div 2, 0), Uint32(LimbBase \div 2, 0)>>}

\* Sample value of block.timestamp.  The contract stores it at submission and
\* never reads it.
Timestamps == {1}

\* msg.sender is never the zero address.
ZeroAddress == "0x0"
Oracle == "Oracle"
Institutions == {"I1", "I2"}
Addresses == Institutions \cup {Oracle}

DatasetIds == 0..MaxDatasets
RequestIds == 0..MaxRequests

\* Revert reasons.
NotAuthorized == "Not authorized"
AlreadyAnalyzed == "Already analyzed"
AnalysisNotComplete == "Analysis not complete"
InvalidRequest == "Invalid request"
ProofVerificationFailed == "checkSignatures reverted"
ArithmeticPanic == "Panic(0x11)"
Success == "ok"

\* Callback selectors handed to FHE.requestDecryption.
PerformAnalysisSelector == "performAnalysis"
DecryptFinalResultsSelector == "decryptFinalResults"

\* Proof arguments: the KMS signature for the request, or anything else.
KmsSigned == "KmsSigned"
Forged == "Forged"

\* Accounts that send callback transactions: the oracle's relayer, and one
\* account that is not the oracle.
Relayers == {Oracle, "I2"}

VARIABLES
    datasetCount,         \* uint256 public datasetCount
    encryptedDatasets,    \* mapping(uint256 => EncryptedGenomeData)
    analysisResults,      \* mapping(uint256 => AnalysisResult)
    requestToDatasetId,   \* mapping(uint256 => uint256)
    decryptionRequests,   \* oracle: request id -> handles and selector
    fulfilledRequests,    \* oracle: request ids whose own callback has succeeded
    lastCall,             \* the last transaction and its outcome
    kvStore,              \* client: the key-value store behind getData / setData
    idsDrawn,             \* client: how many dataset ids have been generated
    pc,                   \* client: the await each session's handler stands at
    frame,                \* client: the local variables of each session's handler
    gwasDatasets,         \* client: useState gwasDatasets of each session
    transactionStatus,    \* client: useState transactionStatus of each session
    uploading,            \* client: useState uploading of each session
    timerArmed            \* client: whether a setTimeout that hides the status is set

ledgerVars == <<datasetCount, encryptedDatasets, analysisResults, requestToDatasetId>>
oracleVars == <<decryptionRequests, fulfilledRequests>>
contractVars == <<ledgerVars, oracleVars, lastCall>>
clientVars == <<kvStore, idsDrawn, pc, frame, gwasDatasets, transactionStatus, uploading,
               timerArmed>>
vars == <<datasetCount, encryptedDatasets, analysisResults, requestToDatasetId,
          decryptionRequests, fulfilledRequests, lastCall,
          kvStore, idsDrawn, pc, frame, gwasDatasets, transactionStatus, uploading,
          timerArmed>>

\* The value every key of a Solidity mapping holds before it is written.
ZeroDataset ==
    [id |-> 0, encryptedGenotype |-> Zero32, encryptedPhenotype |-> Zero32,
     institution |-> ZeroAddress, timestamp |-> 0]

ZeroResult ==
    [encryptedPValue |-> Zero32, encryptedOddsRatio |-> Zero32, isRevealed |-> FALSE]

\* What a call leaves to be observed: the function called, "ok" or the
\* revert reason, the event emitted (none when it reverts) and the values
\* returned (none for a transaction).
NoEvent == <<>>
Event(name, id) == <<name, id>>
NoValue == <<>>

Call(op, outcome, emitted) ==
    [op |-> op, outcome |-> outcome, emitted |-> emitted, returned |-> NoValue]

Returned(op, values) ==
    [op |-> op, outcome |-> Success, emitted |-> NoEvent, returned |-> values]

\* The storage of the contract after deployment.
ContractInit ==
    /\ datasetCount = 0
    /\ encryptedDatasets = [d \in DatasetIds |-> ZeroDataset]
    /\ analysisResults = [d \in DatasetIds |-> ZeroResult]
    /\ requestToDatasetId = [r \in RequestIds |-> 0]
    /\ decryptionRequests = <<>>
    /\ fulfilledRequests = {}
    /\ lastCall = Call("constructor", Success, NoEvent)

\* A reverted transaction: storage and the oracle are untouched.
Revert(op, reason) ==
    /\ lastCall' = Call(op, reason, NoEvent)
    /\ UNCHANGED <<ledgerVars, oracleVars>>

\* ------------------------------------------------------ FHE library
\* FHE.asEuint32 / FHE.toBytes32: the handle stands for its cleartext.
asEuint32(v) == v

\* FHE.requestDecryption: the next request id of the library's counter.
NextRequestId == Len(decryptionRequests) + 1

IssuedRequests == 1..Len(decryptionRequests)

\* The cleartexts the oracle decrypts the handles of request r to.
Decryption(r) == decryptionRequests[r].handles

\* Mutant: the callback does not verify the proof.
checkSignaturesMissing(requestId, cleartexts, proof) == TRUE

\* Mutant: the signature is checked, but not that it signs the cleartexts of
\* this request.
checkSignaturesProofOnly(requestId, cleartexts, proof) ==
    /\ requestId \in IssuedRequests
    /\ proof = KmsSigned

\* FHE.checkSignatures(requestId, cleartexts, proof).
checkSignatures(requestId, cleartexts, proof) ==
    /\ requestId \in IssuedRequests
    /\ proof = KmsSigned
    /\ cleartexts = Decryption(requestId)

\* The <<cleartexts, proof>> arguments a caller may pass to a callback: the
\* signed response of the oracle to any request issued so far, or cleartexts
\* nobody signed.
CallbackInputs ==
    {<<Decryption(r), KmsSigned>> : r \in IssuedRequests}
        \cup {<<<<Zero32, Zero32>>, Forged>>}

\* The oracle marks a request fulfilled when the callback it registered for
\* the request has run to completion.
Fulfil(requestId, selector) ==
    IF requestId \in IssuedRequests /\ decryptionRequests[requestId].selector = selector
    THEN fulfilledRequests \cup {requestId}
    ELSE fulfilledRequests

\* --------------------------------------------------------- contract
\* Mutant: the modifier checks that the dataset exists, not who calls.
onlyInstitutionAnyCaller(sender, datasetId) ==
    encryptedDatasets[datasetId].institution # ZeroAddress

onlyInstitution(sender, datasetId) ==
    sender = encryptedDatasets[datasetId].institution

\* Mutant: the require is missing.
requireNotAnalyzedMissing(datasetId) == TRUE

\* require(!analysisResults[datasetId].isRevealed, "Already analyzed")
requireNotAnalyzed(datasetId) == ~analysisResults[datasetId].isRevealed

\* Mutant: the require is missing.
requireValidRequestMissing(datasetId) == TRUE

\* require(datasetId != 0, "Invalid request")
requireValidRequest(datasetId) == datasetId # 0

\* Mutant: the require is missing.
requireNotRevealedMissing(result) == TRUE

\* require(!result.isRevealed, "Already analyzed")
requireNotRevealed(result) == ~result.isRevealed

\* Mutant: the require is missing.
requireAnalysisCompleteMissing(result) == TRUE

\* require(result.isRevealed, "Analysis not complete")
requireAnalysisComplete(result) == result.isRevealed

\* Mutant: the counter is advanced for the first dataset only.
NextDatasetIdReused(count) == IF count = 0 THEN 1 ELSE count

\* datasetCount += 1; uint256 newId = datasetCount;
NextDatasetId(count) == count + 1

\* Checked uint32 arithmetic (pragma solidity ^0.8.24): the exact result and
\* whether it left the uint32 range, in which case the call panics.
Add32(a, b) ==
    LET lo == a[2] + b[2]
        hi == a[1] + b[1] + (lo \div LimbBase)
    IN [value |-> Uint32(hi % LimbBase, lo % LimbBase), overflow |-> hi >= LimbBase]

\* The 32-bit product of two 16-bit limbs, as <<hi, lo>>.
MulLimb(x, y) ==
    LET t == x * (y \div HalfLimb)
        u == (t % HalfLimb) * HalfLimb + x * (y % HalfLimb)
    IN Uint32((t \div HalfLimb) + (u \div LimbBase), u % LimbBase)

Mul32(a, b) ==
    LET low == MulLimb(a[2], b[2])
        cross == IF a[1] = 0 THEN MulLimb(a[2], b[1]) ELSE MulLimb(a[1], b[2])
        hi == cross[2] + low[1]
    IN [value |-> Uint32(hi % LimbBase, low[2]),
        overflow |-> (a[1] # 0 /\ b[1] # 0) \/ cross[1] # 0 \/ hi >= LimbBase]

\* Mutant: the statistic is computed as the ratio is.
calculatePValueAsProduct(genotype, phenotype) == Mul32(genotype, phenotype)

calculatePValue(genotype, phenotype) == Add32(genotype, phenotype)

calculateOddsRatio(genotype, phenotype) == Mul32(genotype, phenotype)

submitEncryptedDataset(sender, encryptedGenotype, encryptedPhenotype, blockTimestamp) ==
    /\ datasetCount < MaxDatasets
    /\ LET newId == NextDatasetId(datasetCount) IN
        /\ datasetCount' = newId
        /\ encryptedDatasets' = [encryptedDatasets EXCEPT ![newId] =
               [id |-> newId,
                encryptedGenotype |-> encryptedGenotype,
                encryptedPhenotype |-> encryptedPhenotype,
                institution |-> sender,
                timestamp |-> blockTimestamp]]
        /\ analysisResults' = [analysisResults EXCEPT ![newId] =
               [encryptedPValue |-> asEuint32(Zero32),
                encryptedOddsRatio |-> asEuint32(Zero32),
                isRevealed |-> FALSE]]
        /\ lastCall' = Call("submitEncryptedDataset", Success,
                            Event("DatasetSubmitted", <<newId, sender>>))
    /\ UNCHANGED <<requestToDatasetId, oracleVars>>

\* Mutant: the request also marks the dataset analyzed.
requestGWASAnalysisMarksAnalyzed(sender, datasetId) ==
    LET data == encryptedDatasets[datasetId] IN
    IF ~onlyInstitution(sender, datasetId)
    THEN Revert("requestGWASAnalysis", NotAuthorized)
    ELSE IF ~requireNotAnalyzed(datasetId)
    THEN Revert("requestGWASAnalysis", AlreadyAnalyzed)
    ELSE
        /\ Len(decryptionRequests) < MaxRequests
        /\ LET reqId == NextRequestId IN
            /\ decryptionRequests' = Append(decryptionRequests,
                   [handles |-> <<data.encryptedGenotype, data.encryptedPhenotype>>,
                    selector |-> PerformAnalysisSelector])
            /\ requestToDatasetId' = [requestToDatasetId EXCEPT ![reqId] = datasetId]
        /\ analysisResults' = [analysisResults EXCEPT ![datasetId].isRevealed = TRUE]
        /\ lastCall' = Call("requestGWASAnalysis", Success,
                            Event("AnalysisRequested", datasetId))
        /\ UNCHANGED <<datasetCount, encryptedDatasets, fulfilledRequests>>

requestGWASAnalysis(sender, datasetId) ==
    LET data == encryptedDatasets[datasetId] IN
    IF ~onlyInstitution(sender, datasetId)
    THEN Revert("requestGWASAnalysis", NotAuthorized)
    ELSE IF ~requireNotAnalyzed(datasetId)
    THEN Revert("requestGWASAnalysis", AlreadyAnalyzed)
    ELSE
        /\ Len(decryptionRequests) < MaxRequests
        /\ LET reqId == NextRequestId IN
            /\ decryptionRequests' = Append(decryptionRequests,
                   [handles |-> <<data.encryptedGenotype, data.encryptedPhenotype>>,
                    selector |-> PerformAnalysisSelector])
            /\ requestToDatasetId' = [requestToDatasetId EXCEPT ![reqId] = datasetId]
        /\ lastCall' = Call("requestGWASAnalysis", Success,
                            Event("AnalysisRequested", datasetId))
        /\ UNCHANGED <<datasetCount, encryptedDatasets, analysisResults, fulfilledRequests>>

performAnalysis(sender, requestId, cleartexts, proof) ==
    LET datasetId == requestToDatasetId[requestId]
        result == analysisResults[datasetId]
        genotype == cleartexts[1]
        phenotype == cleartexts[2]
        pValue == calculatePValue(genotype, phenotype)
        oddsRatio == calculateOddsRatio(genotype, phenotype)
    IN
    IF ~requireValidRequest(datasetId)
    THEN Revert("performAnalysis", InvalidRequest)
    ELSE IF ~requireNotRevealed(result)
    THEN Revert("performAnalysis", AlreadyAnalyzed)
    ELSE IF ~checkSignatures(requestId, cleartexts, proof)
    THEN Revert("performAnalysis", ProofVerificationFailed)
    ELSE IF pValue.overflow \/ oddsRatio.overflow
    THEN Revert("performAnalysis", ArithmeticPanic)
    ELSE
        /\ analysisResults' = [analysisResults EXCEPT ![datasetId] =
               [encryptedPValue |-> asEuint32(pValue.value),
                encryptedOddsRatio |-> asEuint32(oddsRatio.value),
                isRevealed |-> TRUE]]
        /\ fulfilledRequests' = Fulfil(requestId, PerformAnalysisSelector)
        /\ lastCall' = Call("performAnalysis", Success,
                            Event("ResultDecrypted", datasetId))
        /\ UNCHANGED <<datasetCount, encryptedDatasets, requestToDatasetId, decryptionRequests>>

\* Mutant: the view reads the result of the latest dataset.
getAnalysisResultOfLatest(datasetId) ==
    LET r == analysisResults[datasetCount] IN
    <<r.encryptedPValue, r.encryptedOddsRatio, r.isRevealed>>

\* Read-only: the tuple the view function returns.
getAnalysisResult(datasetId) ==
    LET r == analysisResults[datasetId] IN
    <<r.encryptedPValue, r.encryptedOddsRatio, r.isRevealed>>

\* A call of the view function: nothing but the returned tuple is new.
viewAnalysisResult(datasetId) ==
    /\ lastCall' = Returned("getAnalysisResult", getAnalysisResult(datasetId))
    /\ UNCHANGED <<ledgerVars, oracleVars>>

requestResultDecryption(sender, datasetId) ==
    LET result == analysisResults[datasetId] IN
    IF ~onlyInstitution(sender, datasetId)
    THEN Revert("requestResultDecryption", NotAuthorized)
    ELSE IF ~requireAnalysisComplete(result)
    THEN Revert("requestResultDecryption", AnalysisNotComplete)
    ELSE
        /\ Len(decryptionRequests) < MaxRequests
        /\ LET reqId == NextRequestId IN
            /\ decryptionRequests' = Append(decryptionRequests,
                   [handles |-> <<result.encryptedPValue, result.encryptedOddsRatio>>,
                    selector |-> DecryptFinalResultsSelector])
            /\ requestToDatasetId' = [requestToDatasetId EXCEPT ![reqId] = datasetId]
        /\ lastCall' = Call("requestResultDecryption", Success, NoEvent)
        /\ UNCHANGED <<datasetCount, encryptedDatasets, analysisResults, fulfilledRequests>>

decryptFinalResults(sender, requestId, cleartexts, proof) ==
    LET datasetId == requestToDatasetId[requestId] IN
    IF ~requireValidRequest(datasetId)
    THEN Revert("decryptFinalResults", InvalidRequest)
    ELSE IF ~checkSignatures(requestId, cleartexts, proof)
    THEN Revert("decryptFinalResults", ProofVerificationFailed)
    ELSE
        /\ fulfilledRequests' = Fulfil(requestId, DecryptFinalResultsSelector)
        /\ lastCall' = Call("decryptFinalResults", Success, NoEvent)
        /\ UNCHANGED <<ledgerVars, decryptionRequests>>

\* block.timestamp never runs backwards; only submitEncryptedDataset reads it.
LastTimestamp ==
    IF datasetCount = 0 THEN 0 ELSE encryptedDatasets[datasetCount].timestamp

Submit ==
    \E sender \in Institutions, payload \in PayloadSamples,
       ts \in {t \in Timestamps : t >= LastTimestamp} :
        submitEncryptedDataset(sender, payload[1], payload[2], ts)
            /\ UNCHANGED clientVars

RequestAnalysis ==
    \E sender \in Institutions, d \in DatasetIds :
        requestGWASAnalysis(sender, d) /\ UNCHANGED clientVars

CompleteAnalysis ==
    \E sender \in Relayers, r \in RequestIds, in \in CallbackInputs :
        performAnalysis(sender, r, in[1], in[2]) /\ UNCHANGED clientVars

RequestReveal ==
    \E sender \in Institutions, d \in DatasetIds :
        requestResultDecryption(sender, d) /\ UNCHANGED clientVars

CompleteReveal ==
    \E sender \in Relayers, r \in RequestIds, in \in CallbackInputs :
        decryptFinalResults(sender, r, in[1], in[2]) /\ UNCHANGED clientVars

GetResult ==
    \E d \in DatasetIds : viewAnalysisResult(d) /\ UNCHANGED clientVars

Next ==
    \/ Submit
    \/ RequestAnalysis
    \/ CompleteAnalysis
    \/ GetResult
    \/ RequestReveal
    \/ CompleteReveal

\* ------------------------------------------------------------------ status
\* The workflow status the contract keeps for a submitted dataset.  The only
\* status storage is AnalysisResult.isRevealed: the guards read it as
\* "analysis complete" ("Already analyzed" when set, "Analysis not complete"
\* when clear), and no function writes anything that marks a finished reveal.
StatusIn(results, d) ==
    IF results[d].isRevealed THEN "analyzed" ELSE "pending"

StatusOf(d) == StatusIn(analysisResults, d)

StatusRank(status) ==
    CASE status = "pending" -> 0
      [] status = "analyzed" -> 1
      [] status = "revealed" -> 2

Submitted == 1..datasetCount

\* A performAnalysis callback of a request for dataset d has succeeded.
AnalysisCompleted(d) ==
    \E r \in fulfilledRequests :
        /\ decryptionRequests[r].selector = PerformAnalysisSelector
        /\ requestToDatasetId[r] = d

\* A decryptFinalResults callback of a reveal request for dataset d has
\* succeeded.
RevealCompleted(d) ==
    \E r \in fulfilledRequests :
        /\ decryptionRequests[r].selector = DecryptFinalResultsSelector
        /\ requestToDatasetId[r] = d

\* The number a uint32 <<hi, lo>> stands for (for values below 2^31).
ToNat(u) == u[1] * LimbBase + u[2]

\* ------------------------------------------------------------------ client
\* The dataset handlers of App.tsx: loadDatasets, uploadDataset.  A session
\* is one browser tab with a connected wallet; it runs one handler at a
\* time, and every await of a handler is a point where the other session may
\* run.  The store behind contract.getData / contract.setData is the
\* environment: it keeps the last bytes set for a key, and a key never set
\* reads as empty bytes.

\* Bound: the number of dataset ids generated in a behaviour.
MaxKeys == 2

Writers == {"w1", "w2"}

\* useState account: the wallet account of the session.
accountOf(w) == IF w = "w1" THEN "I1" ELSE "I2"

\* Sample contents of the upload form (useState newDataset).  The
\* description of the second one holds a character outside Latin-1.
NonLatin1 == "delta U+03B4"
Forms ==
    {[studyType |-> "case-control", description |-> "d", genomicData |-> "ACGT"],
     [studyType |-> "cohort", description |-> NonLatin1, genomicData |-> "ACGT"]}

\* Sample values of Math.floor(Date.now() / 1000).  The clocks of two
\* sessions are not synchronised.
ClientTimes == {1, 2}

\* Mutant: every call generates the same id.
DatasetKeyRepeated(n) == ToString(1)

\* `${Date.now()}-${Math.random().toString(36).substring(2, 9)}`: the n-th
\* id generated; two calls do not generate the same id.
DatasetKey(n) == ToString(n)

IndexKey == <<"gwas_", "keys">>
RecordKey(datasetId) == <<"gwas_", datasetId>>
StoreKeys == {IndexKey} \cup {RecordKey(DatasetKey(n)) : n \in 1..MaxKeys}

\* JSON.stringify / JSON.parse: a text is well formed when it was produced
\* by JSON.stringify, and then parses to the value it was produced from;
\* parsing any other text throws.  A damaged text keeps, as value, the
\* value of the text it was made from, which no code reads.
JSONstringify(value) == [wellFormed |-> TRUE, value |-> value]
Damaged(text) == [text EXCEPT !.wellFormed = FALSE]

\* Mutant: a parser that reads damaged texts as well.
JSONparseNeverThrows(text) == FALSE

JSONparseThrows(text) == ~text.wellFormed
JSONparse(text) == text.value

\* ethers.toUtf8Bytes / ethers.toUtf8String; a JSON text is never empty.
EmptyBytes == <<>>
toUtf8Bytes(text) == <<text>>
toUtf8String(bytes) == bytes[1]

\* btoa throws on a string with a character outside Latin-1.
btoaThrows(form) == form.description = NonLatin1
btoa(text) == [base64 |-> text]

\* contract.getData(key) and the store after contract.setData(key, bytes).
getData(key) == kvStore[key]
setData(key, bytes) == [kvStore EXCEPT ![key] = bytes]

\* Mutant: the new id replaces the keys read.
pushReplacing(keys, datasetId) == <<datasetId>>

\* Mutant: the new id is appended to the index the store holds now.
pushOntoStored(keys, datasetId) ==
    IF Len(getData(IndexKey)) > 0
    THEN Append(JSONparse(toUtf8String(getData(IndexKey))), datasetId)
    ELSE <<datasetId>>

\* keys.push(datasetId)
push(keys, datasetId) == Append(keys, datasetId)

\* The keys array after the fail-open parse of the index bytes, and whether
\* the parse logged an error.
parseKeysThrows(keysBytes) ==
    Len(keysBytes) > 0 /\ JSONparseThrows(toUtf8String(keysBytes))

\* Mutant: the keys are taken from the index bytes without the try.
parseKeysUnguarded(keysBytes) ==
    IF Len(keysBytes) > 0 THEN JSONparse(toUtf8String(keysBytes)) ELSE <<>>

parseKeys(keysBytes) ==
    IF Len(keysBytes) > 0 /\ ~JSONparseThrows(toUtf8String(keysBytes))
    THEN JSONparse(toUtf8String(keysBytes))
    ELSE <<>>

\* dataset.status || "pending"
statusOrPending(dataset) ==
    IF dataset.status = "" THEN "pending" ELSE dataset.status

\* The GwasData entry loadDatasets pushes for a key and its parsed record.
listEntry(key, dataset) ==
    [id |-> key,
     encryptedData |-> dataset.data,
     timestamp |-> dataset.timestamp,
     institution |-> dataset.institution,
     studyType |-> dataset.studyType,
     status |-> statusOrPending(dataset)]

\* list.sort((a, b) => b.timestamp - a.timestamp): a stable sort, newest
\* first.
RECURSIVE insertByTimestamp(_, _)
insertByTimestamp(sorted, entry) ==
    IF sorted = <<>> THEN <<entry>>
    ELSE IF Head(sorted).timestamp >= entry.timestamp
    THEN <<Head(sorted)>> \o insertByTimestamp(Tail(sorted), entry)
    ELSE <<entry>> \o sorted

\* Mutant: the list is left in the order of the index.
sortByTimestampDescOmitted(list) == list

RECURSIVE sortByTimestampDesc(_)
sortByTimestampDesc(list) ==
    IF list = <<>> THEN <<>>
    ELSE insertByTimestamp(sortByTimestampDesc(SubSeq(list, 1, Len(list) - 1)),
                           list[Len(list)])

\* The record of a dataset before uploadDataset has built it.
NoDataset ==
    [data |-> "", timestamp |-> 0, institution |-> "", studyType |-> "", status |-> ""]

\* The local variables of a handler.  shownBefore, logged and listed are
\* kept for observation: the ids displayed when uploadDataset was called,
\* whether the handler has called console.error, and whether its
\* loadDatasets reached setGwasDatasets.  handler names the function the
\* locals belong to, and awaited tells that it awaits its loadDatasets (the
\* refresh button and the mount effect do not).
EmptyFrame ==
    [newDataset |-> "", datasetId |-> "", datasetData |-> NoDataset, keys |-> <<>>,
     loadKeys |-> <<>>, cursor |-> 0, list |-> <<>>,
     shownBefore |-> {}, logged |-> FALSE, listed |-> FALSE,
     handler |-> "", awaited |-> FALSE]

Hidden == [visible |-> FALSE, status |-> "pending"]
Shown(status) == [visible |-> TRUE, status |-> status]

ClientInit ==
    /\ kvStore = [k \in StoreKeys |-> EmptyBytes]
    /\ idsDrawn = 0
    /\ pc = [w \in Writers |-> "idle"]
    /\ frame = [w \in Writers |-> EmptyFrame]
    /\ gwasDatasets = [w \in Writers |-> <<>>]
    /\ transactionStatus = [w \in Writers |-> Hidden]
    /\ uploading = [w \in Writers |-> FALSE]
    /\ timerArmed = [w \in Writers |-> FALSE]

ShownIds(w) == {gwasDatasets[w][i].id : i \in 1..Len(gwasDatasets[w])}

\* ------------------------------------------------------- uploadDataset
\* catch and finally of uploadDataset: the error is shown and a timer is
\* set to hide it; nothing is undone and nothing is retried.
uploadCatch(w) ==
    /\ transactionStatus' = [transactionStatus EXCEPT ![w] = Shown("error")]
    /\ uploading' = [uploading EXCEPT ![w] = FALSE]
    /\ timerArmed' = [timerArmed EXCEPT ![w] = TRUE]
    /\ pc' = [pc EXCEPT ![w] = "idle"]

\* Lines 133-146: uploading is set and pending is shown.
uploadDataset(w, newDataset) ==
    /\ pc[w] = "idle"
    /\ idsDrawn + Cardinality({v \in Writers : pc[v] \in {"upload_encrypt", "upload_signer"}})
           < MaxKeys
    /\ frame' = [frame EXCEPT ![w] =
           [EmptyFrame EXCEPT !.newDataset = newDataset, !.shownBefore = ShownIds(w),
                              !.handler = "upload", !.awaited = TRUE]]
    /\ transactionStatus' = [transactionStatus EXCEPT ![w] = Shown("pending")]
    /\ uploading' = [uploading EXCEPT ![w] = TRUE]
    /\ pc' = [pc EXCEPT ![w] = "upload_encrypt"]
    /\ UNCHANGED <<kvStore, idsDrawn, gwasDatasets, timerArmed>>

\* Lines 147-150, still in the turn of the click: the form is encrypted,
\* where btoa may throw, and the handler awaits getContractWithSigner.
uploadEncrypt(w) ==
    /\ pc[w] = "upload_encrypt"
    /\ IF btoaThrows(frame[w].newDataset)
       THEN uploadCatch(w)
       ELSE /\ pc' = [pc EXCEPT ![w] = "upload_signer"]
            /\ UNCHANGED <<transactionStatus, uploading, timerArmed>>
    /\ UNCHANGED <<kvStore, idsDrawn, frame, gwasDatasets>>

\* Lines 150-166: with the signer, the id and the record are built and
\* setData of the record is sent.
uploadGetSigner(w, contract, now) ==
    /\ pc[w] = "upload_signer"
    /\ IF ~contract
       THEN uploadCatch(w) /\ UNCHANGED <<idsDrawn, frame>>
       ELSE LET newDataset == frame[w].newDataset
                encryptedData == <<"FHE-GWAS-", btoa(JSONstringify(newDataset))>>
            IN
            /\ idsDrawn' = idsDrawn + 1
            /\ frame' = [frame EXCEPT
                   ![w].datasetId = DatasetKey(idsDrawn + 1),
                   ![w].datasetData =
                       [data |-> encryptedData,
                        timestamp |-> now,
                        institution |-> accountOf(w),
                        studyType |-> newDataset.studyType,
                        status |-> "pending"]]
            /\ pc' = [pc EXCEPT ![w] = "upload_setRecord"]
            /\ UNCHANGED <<transactionStatus, uploading, timerArmed>>
    /\ UNCHANGED <<kvStore, gwasDatasets>>

\* Mutant: a failed setData of the record is ignored.
uploadSetRecordIgnored(w, ok) ==
    /\ pc[w] = "upload_setRecord"
    /\ kvStore' = IF ok THEN setData(RecordKey(frame[w].datasetId),
                                     toUtf8Bytes(JSONstringify(frame[w].datasetData)))
                       ELSE kvStore
    /\ pc' = [pc EXCEPT ![w] = "upload_getKeys"]
    /\ UNCHANGED <<transactionStatus, uploading, timerArmed, idsDrawn, frame, gwasDatasets>>

\* Lines 166-171: setData of the record resolves or throws; then getData of
\* the index is sent.
uploadSetRecord(w, ok) ==
    /\ pc[w] = "upload_setRecord"
    /\ IF ~ok
       THEN uploadCatch(w) /\ UNCHANGED kvStore
       ELSE /\ kvStore' = setData(RecordKey(frame[w].datasetId),
                                  toUtf8Bytes(JSONstringify(frame[w].datasetData)))
            /\ pc' = [pc EXCEPT ![w] = "upload_getKeys"]
            /\ UNCHANGED <<transactionStatus, uploading, timerArmed>>
    /\ UNCHANGED <<idsDrawn, frame, gwasDatasets>>

\* Lines 171-180: getData of the index resolves or throws; the bytes are
\* parsed, failing open to no keys.
uploadGetKeys(w, ok) ==
    /\ pc[w] = "upload_getKeys"
    /\ IF ~ok
       THEN uploadCatch(w) /\ UNCHANGED frame
       ELSE LET keysBytes == getData(IndexKey) IN
            /\ frame' = [frame EXCEPT
                   ![w].keys = parseKeys(keysBytes),
                   ![w].logged = @ \/ parseKeysThrows(keysBytes)]
            /\ pc' = [pc EXCEPT ![w] = "upload_setKeys"]
            /\ UNCHANGED <<transactionStatus, uploading, timerArmed>>
    /\ UNCHANGED <<kvStore, idsDrawn, gwasDatasets>>

\* Mutant: a failed setData of the index is sent again until it resolves.
uploadSetKeysRetried(w, ok) ==
    /\ pc[w] = "upload_setKeys"
    /\ kvStore' = setData(IndexKey,
           toUtf8Bytes(JSONstringify(push(frame[w].keys, frame[w].datasetId))))
    /\ transactionStatus' = [transactionStatus EXCEPT ![w] = Shown("success")]
    /\ pc' = [pc EXCEPT ![w] = "load_contract"]
    /\ UNCHANGED <<uploading, timerArmed, idsDrawn, frame, gwasDatasets>>

\* Lines 182-195: the id is pushed and setData of the index resolves or
\* throws; on success the status is shown and loadDatasets is called.
uploadSetKeys(w, ok) ==
    /\ pc[w] = "upload_setKeys"
    /\ IF ~ok
       THEN uploadCatch(w) /\ UNCHANGED kvStore
       ELSE /\ kvStore' = setData(IndexKey,
                   toUtf8Bytes(JSONstringify(push(frame[w].keys, frame[w].datasetId))))
            /\ transactionStatus' = [transactionStatus EXCEPT ![w] = Shown("success")]
            /\ pc' = [pc EXCEPT ![w] = "load_contract"]
            /\ UNCHANGED <<uploading, timerArmed>>
    /\ UNCHANGED <<idsDrawn, frame, gwasDatasets>>

\* ------------------------------------------------------ processDataset
\* Mutant: the catch returns without showing the error.
processCatchSilent(w) ==
    /\ pc' = [pc EXCEPT ![w] = "idle"]
    /\ UNCHANGED <<transactionStatus, timerArmed>>

\* catch of processDataset (lines 274-284): the error is shown and a timer
\* is set to hide it; there is no finally.
processCatch(w) ==
    /\ transactionStatus' = [transactionStatus EXCEPT ![w] = Shown("error")]
    /\ timerArmed' = [timerArmed EXCEPT ![w] = TRUE]
    /\ pc' = [pc EXCEPT ![w] = "idle"]

\* Mutant: only the status is written back.
updatedDatasetStatusOnly(datasetData) ==
    [NoDataset EXCEPT !.status = "processed"]

\* Lines 253-256: { ...datasetData, status: "processed" }.
updatedDataset(datasetData) ==
    [datasetData EXCEPT !.status = "processed"]

\* Lines 225-241: pending is shown and the handler awaits the simulated
\* computation and then getContractWithSigner.
processDataset(w, datasetId) ==
    /\ pc[w] = "idle"
    /\ frame' = [frame EXCEPT ![w] =
           [EmptyFrame EXCEPT !.datasetId = datasetId, !.shownBefore = ShownIds(w),
                              !.handler = "process", !.awaited = TRUE]]
    /\ transactionStatus' = [transactionStatus EXCEPT ![w] = Shown("pending")]
    /\ pc' = [pc EXCEPT ![w] = "process_signer"]
    /\ UNCHANGED <<kvStore, idsDrawn, gwasDatasets, uploading, timerArmed>>

\* Lines 241-246: without a signer the handler throws; otherwise getData of
\* the record is sent.
processGetSigner(w, contract) ==
    /\ pc[w] = "process_signer"
    /\ IF ~contract
       THEN processCatch(w)
       ELSE /\ pc' = [pc EXCEPT ![w] = "process_getRecord"]
            /\ UNCHANGED <<transactionStatus, timerArmed>>
    /\ UNCHANGED <<kvStore, idsDrawn, frame, gwasDatasets, uploading>>

\* Lines 246-258: getData of the record resolves or throws; no bytes throw
\* "Dataset not found" and bytes that do not parse throw as well; otherwise
\* setData of the updated record is sent.
processGetRecord(w, ok) ==
    /\ pc[w] = "process_getRecord"
    /\ LET datasetBytes == getData(RecordKey(frame[w].datasetId)) IN
       IF ~ok \/ Len(datasetBytes) = 0 \/ JSONparseThrows(toUtf8String(datasetBytes))
       THEN processCatch(w) /\ UNCHANGED frame
       ELSE /\ frame' = [frame EXCEPT
                   ![w].datasetData = JSONparse(toUtf8String(datasetBytes))]
            /\ pc' = [pc EXCEPT ![w] = "process_setRecord"]
            /\ UNCHANGED <<transactionStatus, timerArmed>>
    /\ UNCHANGED <<kvStore, idsDrawn, gwasDatasets, uploading>>

\* Lines 258-269: setData of the record resolves or throws; on success the
\* status is shown and loadDatasets is called.
processSetRecord(w, ok) ==
    /\ pc[w] = "process_setRecord"
    /\ IF ~ok
       THEN processCatch(w) /\ UNCHANGED kvStore
       ELSE /\ kvStore' = setData(RecordKey(frame[w].datasetId),
                   toUtf8Bytes(JSONstringify(updatedDataset(frame[w].datasetData))))
            /\ transactionStatus' = [transactionStatus EXCEPT ![w] = Shown("success")]
            /\ pc' = [pc EXCEPT ![w] = "load_contract"]
            /\ UNCHANGED timerArmed
    /\ UNCHANGED <<idsDrawn, frame, gwasDatasets, uploading>>

\* ---------------------------------------------------------- setTimeout
\* Lines 197-205, 214-219, 271-273, 279-283: a timer hides the status,
\* whatever handler has set it since.  Any number of timers can be set at
\* once; timerArmed tells whether one is, and more whether another one
\* remains after this one.
hideStatus(w, more) ==
    /\ timerArmed[w]
    /\ transactionStatus' = [transactionStatus EXCEPT ![w] = Hidden]
    /\ timerArmed' = [timerArmed EXCEPT ![w] = more]
    /\ UNCHANGED <<kvStore, idsDrawn, pc, frame, gwasDatasets, uploading>>

\* -------------------------------------------------------- loadDatasets
\* finally of loadDatasets and the return to its caller: after the load
\* uploadDataset and processDataset only set the timer that hides the
\* status (lines 197-205, 271-273), and uploadDataset clears uploading.
loadReturn(w) ==
    /\ pc' = [pc EXCEPT ![w] = "idle"]
    /\ uploading' = [uploading EXCEPT ![w] = FALSE]
    /\ timerArmed' = [timerArmed EXCEPT ![w] = @ \/ frame[w].awaited]

\* Line 74, called from the refresh button: the handler awaits
\* getContractReadOnly and isAvailable.
loadDatasets(w) ==
    /\ pc[w] = "idle"
    /\ pc' = [pc EXCEPT ![w] = "load_contract"]
    /\ frame' = [frame EXCEPT ![w].logged = FALSE, ![w].listed = FALSE,
                               ![w].awaited = FALSE]
    /\ UNCHANGED <<kvStore, idsDrawn, gwasDatasets, transactionStatus, uploading,
                   timerArmed>>

\* Lines 77-87: with a contract that is not available the load logs and
\* returns, and the list shown stays; otherwise getData of the index is
\* sent.
loadContract(w, isAvailable) ==
    /\ pc[w] = "load_contract"
    /\ IF isAvailable
       THEN /\ pc' = [pc EXCEPT ![w] = "load_keys"]
            /\ UNCHANGED <<frame, uploading, timerArmed>>
       ELSE /\ frame' = [frame EXCEPT ![w].logged = TRUE]
            /\ loadReturn(w)
    /\ UNCHANGED <<kvStore, idsDrawn, gwasDatasets, transactionStatus>>

\* Lines 87-100: getData of the index resolves or throws (the outer catch
\* logs and the list shown stays); the bytes are parsed, failing open to no
\* keys; with no keys the empty list is set at once.
loadKeys(w, ok) ==
    /\ pc[w] = "load_keys"
    /\ IF ~ok
       THEN /\ frame' = [frame EXCEPT ![w].logged = TRUE]
            /\ loadReturn(w)
            /\ UNCHANGED gwasDatasets
       ELSE LET keysBytes == getData(IndexKey)
                keys == parseKeys(keysBytes)
                logged == frame[w].logged \/ parseKeysThrows(keysBytes)
            IN
            IF keys = <<>>
            THEN /\ gwasDatasets' = [gwasDatasets EXCEPT ![w] = sortByTimestampDesc(<<>>)]
                 /\ frame' = [frame EXCEPT ![w].logged = logged, ![w].listed = TRUE]
                 /\ loadReturn(w)
            ELSE /\ frame' = [frame EXCEPT ![w].logged = logged, ![w].loadKeys = keys,
                                           ![w].cursor = 1, ![w].list = <<>>]
                 /\ pc' = [pc EXCEPT ![w] = "load_record"]
                 /\ UNCHANGED <<gwasDatasets, uploading, timerArmed>>
    /\ UNCHANGED <<kvStore, idsDrawn, transactionStatus>>

\* Lines 100-124, one turn of the loop: getData of the record of the next
\* key resolves or throws; an empty, unreadable or unparsable record is
\* skipped.  After the last key the list is sorted and set.
loadRecord(w, ok) ==
    /\ pc[w] = "load_record"
    /\ LET key == frame[w].loadKeys[frame[w].cursor]
           datasetBytes == getData(RecordKey(key))
           readable == ok /\ Len(datasetBytes) > 0
           parsed == readable /\ ~JSONparseThrows(toUtf8String(datasetBytes))
           list == IF parsed
                   THEN Append(frame[w].list,
                               listEntry(key, JSONparse(toUtf8String(datasetBytes))))
                   ELSE frame[w].list
           logged == frame[w].logged \/ ~ok \/ (readable /\ ~parsed)
       IN
       IF frame[w].cursor < Len(frame[w].loadKeys)
       THEN /\ frame' = [frame EXCEPT ![w].list = list, ![w].logged = logged,
                                      ![w].cursor = @ + 1]
            /\ UNCHANGED <<pc, uploading, timerArmed, gwasDatasets>>
       ELSE /\ gwasDatasets' = [gwasDatasets EXCEPT ![w] = sortByTimestampDesc(list)]
            /\ frame' = [frame EXCEPT ![w].list = <<>>, ![w].logged = logged,
                                      ![w].loadKeys = <<>>, ![w].cursor = 0,
                                      ![w].listed = TRUE]
            /\ loadReturn(w)
    /\ UNCHANGED <<kvStore, idsDrawn, transactionStatus>>

\* ------------------------------------------------------- specifications
\* Lines 539-542: the process button is offered for the listed entries of
\* the session's own account that are pending.
Offered(w, datasetId) ==
    \E i \in 1..Len(gwasDatasets[w]) :
        /\ gwasDatasets[w][i].id = datasetId
        /\ gwasDatasets[w][i].institution = accountOf(w)
        /\ gwasDatasets[w][i].status = "pending"

\* What the surroundings of a session may do: the forms a user submits, the
\* clock readings, the outcomes of the calls loadDatasets awaits, and
\* whether processDataset is called with any id or from the button only.
Surroundings ==
    [forms |-> Forms, times |-> ClientTimes, loads |-> BOOLEAN, anyId |-> TRUE]

\* Surroundings in which loadDatasets always reaches the store, with one
\* form and one clock reading, and processDataset called from the button.
CalmSurroundings ==
    [forms |-> {f \in Forms : ~btoaThrows(f)}, times |-> {1}, loads |-> {TRUE},
     anyId |-> FALSE]

UploadDataset(W, E) ==
    \E w \in W, newDataset \in E.forms :
        uploadDataset(w, newDataset) /\ UNCHANGED contractVars

UploadEncrypt(W) ==
    \E w \in W : uploadEncrypt(w) /\ UNCHANGED contractVars

UploadGetSigner(W, E) ==
    \E w \in W, contract \in BOOLEAN, now \in E.times :
        uploadGetSigner(w, contract, now) /\ UNCHANGED contractVars

UploadSetRecord(W) ==
    \E w \in W, ok \in BOOLEAN : uploadSetRecord(w, ok) /\ UNCHANGED contractVars

UploadGetKeys(W) ==
    \E w \in W, ok \in BOOLEAN : uploadGetKeys(w, ok) /\ UNCHANGED contractVars

UploadSetKeys(W) ==
    \E w \in W, ok \in BOOLEAN : uploadSetKeys(w, ok) /\ UNCHANGED contractVars

LoadDatasets(W) ==
    \E w \in W : loadDatasets(w) /\ UNCHANGED contractVars

LoadContract(W, E) ==
    \E w \in W, isAvailable \in E.loads :
        loadContract(w, isAvailable) /\ UNCHANGED contractVars

LoadKeys(W, E) ==
    \E w \in W, ok \in E.loads : loadKeys(w, ok) /\ UNCHANGED contractVars

LoadRecord(W, E) ==
    \E w \in W, ok \in E.loads : loadRecord(w, ok) /\ UNCHANGED contractVars

ProcessDataset(W, E) ==
    \E w \in W, n \in 1..MaxKeys :
        /\ E.anyId \/ Offered(w, DatasetKey(n))
        /\ processDataset(w, DatasetKey(n)) /\ UNCHANGED contractVars

ProcessGetSigner(W) ==
    \E w \in W, contract \in BOOLEAN :
        processGetSigner(w, contract) /\ UNCHANGED contractVars

ProcessGetRecord(W) ==
    \E w \in W, ok \in BOOLEAN : processGetRecord(w, ok) /\ UNCHANGED contractVars

ProcessSetRecord(W) ==
    \E w \in W, ok \in BOOLEAN : processSetRecord(w, ok) /\ UNCHANGED contractVars

HideStatus(W) ==
    \E w \in W, more \in BOOLEAN : hideStatus(w, more) /\ UNCHANGED contractVars

ClientStep(W, E) ==
    \/ UploadDataset(W, E)
    \/ UploadEncrypt(W)
    \/ UploadGetSigner(W, E)
    \/ UploadSetRecord(W)
    \/ UploadGetKeys(W)
    \/ UploadSetKeys(W)
    \/ LoadDatasets(W)
    \/ LoadContract(W, E)
    \/ LoadKeys(W, E)
    \/ LoadRecord(W, E)
    \/ ProcessDataset(W, E)
    \/ ProcessGetSigner(W)
    \/ ProcessGetRecord(W)
    \/ ProcessSetRecord(W)
    \/ HideStatus(W)

Init == ContractInit /\ ClientInit

\* The ledger contract alone.
Spec == Init /\ [][Next]_vars

\* The oracle delivers its signed response to request r to the callback
\* registered for the request.
Deliver(r) ==
    /\ r \in IssuedRequests
    /\ IF decryptionRequests[r].selector = PerformAnalysisSelector
       THEN performAnalysis(Oracle, r, Decryption(r), KmsSigned)
       ELSE decryptFinalResults(Oracle, r, Decryption(r), KmsSigned)
    /\ UNCHANGED clientVars

\* The ledger contract with an oracle that answers every request.
FairOracleSpec == Spec /\ \A r \in RequestIds : WF_vars(Deliver(r))

\* Two sessions on one store.
ClientNext == ClientStep(Writers, CalmSurroundings)
ClientSpec == Init /\ [][ClientNext]_vars

\* One session alone on the store.
SingleWriterNext == ClientStep({"w1"}, Surroundings)
SingleWriterSpec == Init /\ [][SingleWriterNext]_vars

\* The steps that continue a handler: every promise a handler awaits
\* settles, and the turn of a click runs to its first await.
Settle(W) ==
    \/ UploadEncrypt(W)
    \/ UploadGetSigner(W, Surroundings)
    \/ UploadSetRecord(W)
    \/ UploadGetKeys(W)
    \/ UploadSetKeys(W)
    \/ LoadContract(W, Surroundings)
    \/ LoadKeys(W, Surroundings)
    \/ LoadRecord(W, Surroundings)
    \/ ProcessGetSigner(W)
    \/ ProcessGetRecord(W)
    \/ ProcessSetRecord(W)

\* One session whose awaited promises all settle.
SettlingWriterSpec == SingleWriterSpec /\ WF_vars(Settle({"w1"}))

\* ----------------------------------------------- a store written elsewhere
\* The store is a contract other programs write as well.  The records it
\* may hold under a record key: none, a damaged text, or a record with any
\* clock reading and any status, the status left out included.
ForeignRecords ==
    {[data |-> <<"FHE-GWAS-", btoa(JSONstringify(form))>>,
      timestamp |-> now,
      institution |-> accountOf("w1"),
      studyType |-> form.studyType,
      status |-> status] :
        form \in {f \in Forms : ~btoaThrows(f)},
        now \in ClientTimes,
        status \in {"", "pending", "processed"}}

DamagedRecord ==
    Damaged(JSONstringify(CHOOSE dataset \in ForeignRecords :
                              dataset.timestamp = 2 /\ dataset.status = "pending"))

ForeignRecordBytes ==
    {EmptyBytes, toUtf8Bytes(DamagedRecord)}
        \cup {toUtf8Bytes(JSONstringify(dataset)) : dataset \in ForeignRecords}

\* The indexes it may hold: none, a damaged text, or a list of ids in any
\* order, an id more than once included.
RECURSIVE KeyLists(_)
KeyLists(n) ==
    IF n = 0 THEN {<<>>}
    ELSE KeyLists(n - 1)
            \cup {Append(keys, DatasetKey(k)) :
                      keys \in {l \in KeyLists(n - 1) : Len(l) = n - 1}, k \in 1..MaxKeys}

DamagedIndex == Damaged(JSONstringify(<<DatasetKey(1)>>))

ForeignIndexBytes ==
    {EmptyBytes, toUtf8Bytes(DamagedIndex)}
        \cup {toUtf8Bytes(JSONstringify(keys)) : keys \in KeyLists(MaxKeys) \ {<<>>}}
        \cup {toUtf8Bytes(JSONstringify(<<>>))}

ForeignStores ==
    {[key \in StoreKeys |-> IF key = IndexKey THEN index ELSE records[key]] :
        index \in ForeignIndexBytes,
        records \in [StoreKeys \ {IndexKey} -> ForeignRecordBytes]}

\* One session that mounts on such a store and lists it, any number of
\* times.
ListInit ==
    /\ ContractInit
    /\ kvStore \in ForeignStores
    /\ idsDrawn = 0
    /\ pc = [w \in Writers |-> "idle"]
    /\ frame = [w \in Writers |-> EmptyFrame]
    /\ gwasDatasets = [w \in Writers |-> <<>>]
    /\ transactionStatus = [w \in Writers |-> Hidden]
    /\ uploading = [w \in Writers |-> FALSE]
    /\ timerArmed = [w \in Writers |-> FALSE]

ListNext ==
    \/ LoadDatasets({"w1"})
    \/ LoadContract({"w1"}, Surroundings)
    \/ LoadKeys({"w1"}, Surroundings)
    \/ LoadRecord({"w1"}, Surroundings)

ListSpec == ListInit /\ [][ListNext]_vars

\* uploadDataset of session w has shown success and the session has not
\* started another upload since: frame[w] holds the id, the record and the
\* keys of that upload.
UploadSucceeded(w) ==
    /\ frame[w].handler = "upload"
    /\ transactionStatus[w] = Shown("success")
    /\ pc[w] \in {"idle", "load_contract", "load_keys", "load_record"}

\* The last loadDatasets of session w set the list and logged no error.
ListedCleanly(w) ==
    pc[w] = "idle" /\ frame[w].listed /\ ~frame[w].logged

\* The keys the index holds.
IndexedIds ==
    LET keys == parseKeys(getData(IndexKey)) IN {keys[i] : i \in 1..Len(keys)}

\* The ids whose record key holds a value.
StoredIds ==
    {DatasetKey(n) : n \in {m \in 1..MaxKeys : getData(RecordKey(DatasetKey(m))) # EmptyBytes}}

\* The ids an uploadDataset in progress has generated and not yet indexed.
UploadingIds ==
    {frame[w].datasetId :
        w \in {v \in Writers : pc[v] \in {"upload_setRecord", "upload_getKeys", "upload_setKeys"}}}

\* ------------------------------------------------------------------ claims

\* C1: the k-th successful submit is assigned dataset id k, starting at 1:
\* the records with ids 1..datasetCount carry their own id, no other id
\* (0 included) holds a record, every submit advances the counter by exactly
\* one and announces the new counter value as the id, and no other function
\* changes the counter.
C1_IdsInRange ==
    /\ \A d \in Submitted : encryptedDatasets[d].id = d
    /\ \A d \in DatasetIds \ Submitted : encryptedDatasets[d] = ZeroDataset

C1_SubmitStep ==
    lastCall'.op = "submitEncryptedDataset" =>
    \A sender \in Addresses, payload \in PayloadSamples, ts \in Timestamps :
        submitEncryptedDataset(sender, payload[1], payload[2], ts) =>
            /\ datasetCount' = datasetCount + 1
            /\ lastCall'.emitted = Event("DatasetSubmitted", <<datasetCount + 1, sender>>)
            /\ encryptedDatasets'[datasetCount + 1].id = datasetCount + 1

C1_CounterStep ==
    datasetCount' # datasetCount =>
        /\ lastCall'.op = "submitEncryptedDataset"
        /\ lastCall'.outcome = Success

C1_DatasetIdsSequential ==
    [](C1_IdsInRange) /\ [][C1_SubmitStep /\ C1_CounterStep]_vars

C1_Witness ==
    /\ datasetCount = MaxDatasets
    /\ lastCall.op = "submitEncryptedDataset"
    /\ lastCall.emitted[2][1] = MaxDatasets
    /\ decryptionRequests # <<>>

\* C2: requestGWASAnalysis and requestResultDecryption sent by anyone but the
\* institution recorded for the dataset (nobody is recorded for a dataset
\* that was never submitted) revert with "Not authorized" and change neither
\* the contract storage nor the oracle's requests.
C2_Rejected ==
    /\ lastCall'.outcome = NotAuthorized
    /\ UNCHANGED <<ledgerVars, oracleVars>>

C2_Step ==
    /\ lastCall'.op = "requestGWASAnalysis" =>
        \A d \in DatasetIds : \A sender \in Addresses \ {encryptedDatasets[d].institution} :
            requestGWASAnalysis(sender, d) => C2_Rejected
    /\ lastCall'.op = "requestResultDecryption" =>
        \A d \in DatasetIds : \A sender \in Addresses \ {encryptedDatasets[d].institution} :
            requestResultDecryption(sender, d) => C2_Rejected

C2_NonOwnerRequestRejected == [][C2_Step]_vars

C2_Witness ==
    /\ lastCall.op = "requestResultDecryption"
    /\ lastCall.outcome = NotAuthorized
    /\ \E d \in Submitted : analysisResults[d].isRevealed

\* C3: analysis completes at most once per dataset: when the dataset a
\* request id resolves to has already been analyzed, performAnalysis reverts
\* with "Already analyzed", whatever request id (of either flow), cleartexts
\* and proof it is given, and the stored results are unchanged.
C3_Rejected ==
    /\ lastCall'.outcome = AlreadyAnalyzed
    /\ UNCHANGED <<ledgerVars, oracleVars>>

\* By contraposition: a performAnalysis step that is not such a rejection is
\* not a call whose request id resolves to an analyzed dataset.
C3_Step ==
    (lastCall'.op = "performAnalysis" /\ ~C3_Rejected) =>
        \A r \in RequestIds :
            (requestToDatasetId[r] # 0 /\ analysisResults[requestToDatasetId[r]].isRevealed)
            => \A sender \in Relayers, in \in CallbackInputs :
                   ~performAnalysis(sender, r, in[1], in[2])

C3_AnalysisAtMostOnce == [][C3_Step]_vars

C3_Witness ==
    /\ lastCall.op = "performAnalysis"
    /\ lastCall.outcome = AlreadyAnalyzed
    /\ \E r1, r2 \in IssuedRequests :
        /\ r1 # r2
        /\ requestToDatasetId[r1] = requestToDatasetId[r2]
        /\ decryptionRequests[r1].selector = PerformAnalysisSelector
        /\ decryptionRequests[r2].selector = PerformAnalysisSelector
        /\ r1 \in fulfilledRequests

\* C4: performAnalysis and decryptFinalResults given a request id that no
\* request function has recorded revert with "Invalid request" for every
\* cleartext and proof, and change nothing.
C4_Rejected ==
    /\ lastCall'.outcome = InvalidRequest
    /\ UNCHANGED <<ledgerVars, oracleVars>>

\* By contraposition: a callback step that is not such a rejection is not a
\* call with an unrecorded request id.
C4_Step ==
    /\ (lastCall'.op = "performAnalysis" /\ ~C4_Rejected) =>
        \A sender \in Relayers, r \in RequestIds \ IssuedRequests, in \in CallbackInputs :
            ~performAnalysis(sender, r, in[1], in[2])
    /\ (lastCall'.op = "decryptFinalResults" /\ ~C4_Rejected) =>
        \A sender \in Relayers, r \in RequestIds \ IssuedRequests, in \in CallbackInputs :
            ~decryptFinalResults(sender, r, in[1], in[2])

C4_UnknownRequestRejected == [][C4_Step]_vars

C4_Witness ==
    /\ lastCall.op = "decryptFinalResults"
    /\ lastCall.outcome = InvalidRequest
    /\ decryptionRequests # <<>>

\* C5: the status of a submitted dataset never moves backwards in the order
\* pending < analyzed < revealed, whatever function is called.
C5_Step ==
    \A d \in Submitted :
        StatusRank(StatusIn(analysisResults', d)) >= StatusRank(StatusOf(d))

C5_StatusMonotonic == [][C5_Step]_vars

C5_Witness ==
    /\ datasetCount = MaxDatasets
    /\ analysisResults[1].isRevealed
    /\ lastCall.op = "submitEncryptedDataset"

\* C6: decryptFinalResults called with a request id recorded by
\* requestResultDecryption and a proof that verifies sets the status of the
\* dataset to revealed.
C6_Step ==
    lastCall'.op = "decryptFinalResults" =>
    \A sender \in Relayers, r \in IssuedRequests, in \in CallbackInputs :
        (/\ decryptionRequests[r].selector = DecryptFinalResultsSelector
         /\ checkSignatures(r, in[1], in[2])
         /\ decryptFinalResults(sender, r, in[1], in[2]))
        => StatusIn(analysisResults', requestToDatasetId[r]) = "revealed"

C6_RevealSetsRevealed == [][C6_Step]_vars

\* C7: the two request flows cannot be confused: a request id issued by
\* requestGWASAnalysis is never accepted by decryptFinalResults and one issued
\* by requestResultDecryption is never accepted by performAnalysis; the call
\* reverts and changes nothing, even when its proof verifies.
C7_Step ==
    lastCall'.op \in {"performAnalysis", "decryptFinalResults"} =>
    \A sender \in Relayers, r \in IssuedRequests, in \in CallbackInputs :
        /\ (/\ decryptionRequests[r].selector = PerformAnalysisSelector
            /\ decryptFinalResults(sender, r, in[1], in[2]))
           => (lastCall'.outcome # Success /\ UNCHANGED <<ledgerVars, oracleVars>>)
        /\ (/\ decryptionRequests[r].selector = DecryptFinalResultsSelector
            /\ performAnalysis(sender, r, in[1], in[2]))
           => (lastCall'.outcome # Success /\ UNCHANGED <<ledgerVars, oracleVars>>)

C7_FlowsNotConfused == [][C7_Step]_vars

\* C8: every dataset has at most one outstanding (issued and not yet
\* fulfilled) decryption request per workflow stage.
OutstandingRequests(d, selector) ==
    {r \in IssuedRequests \ fulfilledRequests :
        /\ requestToDatasetId[r] = d
        /\ decryptionRequests[r].selector = selector}

C8_OneOutstandingPerStage ==
    \A d \in Submitted :
        /\ Cardinality(OutstandingRequests(d, PerformAnalysisSelector)) <= 1
        /\ Cardinality(OutstandingRequests(d, DecryptFinalResultsSelector)) <= 1

\* C9: performAnalysis and decryptFinalResults take effect only when the
\* decryption oracle calls them: called by any other account, with whatever
\* request id, cleartexts and proof, they change no status and no result.
C9_Step ==
    lastCall'.op \in {"performAnalysis", "decryptFinalResults"} =>
    \A sender \in Relayers \ {Oracle}, r \in RequestIds, in \in CallbackInputs :
        (performAnalysis(sender, r, in[1], in[2])
            \/ decryptFinalResults(sender, r, in[1], in[2]))
        => analysisResults' = analysisResults

C9_OnlyOracleCompletes == [][C9_Step]_vars

\* C10: requestGWASAnalysis by the owner succeeds only while the dataset is
\* pending: on a dataset already analyzed it reverts with "Already analyzed",
\* issues no decryption request and records no correlation entry.
C10_Step ==
    lastCall'.op = "requestGWASAnalysis" =>
    \A sender \in Addresses, d \in DatasetIds :
        requestGWASAnalysis(sender, d) =>
            /\ (sender = encryptedDatasets[d].institution /\ StatusOf(d) # "pending")
                => /\ lastCall'.outcome = AlreadyAnalyzed
                   /\ UNCHANGED <<ledgerVars, oracleVars>>
            /\ lastCall'.outcome = Success
                => (sender = encryptedDatasets[d].institution /\ StatusOf(d) = "pending")

C10_AnalysisRequestOnlyWhilePending == [][C10_Step]_vars

C10_Witness ==
    /\ lastCall.op = "requestGWASAnalysis"
    /\ lastCall.outcome = AlreadyAnalyzed

\* C11: a successful requestGWASAnalysis for dataset d changes nothing of the
\* contract storage except one entry of the correlation table: one request
\* id that mapped to no dataset now maps to d.  The dataset counter, every
\* dataset record and every result are as before, so d is still pending
\* with its zero placeholders, and the call emits AnalysisRequested(d).
C11_Step ==
    lastCall'.op = "requestGWASAnalysis" /\ lastCall'.outcome = Success =>
        \A sender \in Addresses, d \in DatasetIds :
            requestGWASAnalysis(sender, d) =>
                /\ UNCHANGED <<datasetCount, encryptedDatasets, analysisResults>>
                /\ StatusIn(analysisResults', d) = "pending"
                /\ analysisResults'[d].encryptedPValue = Zero32
                /\ analysisResults'[d].encryptedOddsRatio = Zero32
                /\ \E r \in RequestIds \ {0} :
                    /\ requestToDatasetId[r] = 0
                    /\ requestToDatasetId' = [requestToDatasetId EXCEPT ![r] = d]
                /\ lastCall'.emitted = Event("AnalysisRequested", d)

C11_RequestAnalysisFrame == [][C11_Step]_vars

\* The second analysis request has been issued while the first dataset's
\* result is still the placeholder.
C11_Witness ==
    /\ lastCall.op = "requestGWASAnalysis"
    /\ lastCall.outcome = Success
    /\ Len(decryptionRequests) = MaxRequests
    /\ \E d \in Submitted :
        /\ lastCall.emitted = Event("AnalysisRequested", d)
        /\ getAnalysisResult(d) = <<Zero32, Zero32, FALSE>>
        /\ \E r \in IssuedRequests : requestToDatasetId[r] = d

\* C12: a performAnalysis that succeeds resolves its request id to a
\* submitted, pending dataset d and carries the signed decryption of the
\* request; it stores statistic = genotype + phenotype and ratio = genotype *
\* phenotype of the two cleartexts of the callback, sets d analyzed, and
\* leaves the record of d, every other result and the counter as they were.
C12_Step ==
    lastCall'.op = "performAnalysis" /\ lastCall'.outcome = Success =>
        \A sender \in Relayers, r \in RequestIds, in \in CallbackInputs :
            performAnalysis(sender, r, in[1], in[2]) =>
                LET d == requestToDatasetId[r]
                    genotype == in[1][1]
                    phenotype == in[1][2]
                IN
                /\ d \in Submitted /\ StatusOf(d) = "pending"
                /\ in[2] = KmsSigned /\ in[1] = Decryption(r)
                /\ ToNat(analysisResults'[d].encryptedPValue)
                       = ToNat(genotype) + ToNat(phenotype)
                /\ ToNat(analysisResults'[d].encryptedOddsRatio)
                       = ToNat(genotype) * ToNat(phenotype)
                /\ StatusIn(analysisResults', d) = "analyzed"
                /\ \A other \in DatasetIds \ {d} :
                       analysisResults'[other] = analysisResults[other]
                /\ UNCHANGED <<datasetCount, encryptedDatasets>>

C12_AnalysisStoresSumAndProduct == [][C12_Step]_vars

\* Dataset d = (2, 3) has just been analyzed to (5, 6) while another
\* submitted dataset is still pending.
C12_Witness ==
    /\ lastCall.op = "performAnalysis"
    /\ lastCall.outcome = Success
    /\ \E d \in Submitted :
        /\ lastCall.emitted = Event("ResultDecrypted", d)
        /\ encryptedDatasets[d].encryptedGenotype = Uint32(0, 2)
        /\ encryptedDatasets[d].encryptedPhenotype = Uint32(0, 3)
        /\ getAnalysisResult(d) = <<Uint32(0, 5), Uint32(0, 6), TRUE>>
        /\ \E other \in Submitted \ {d} : StatusOf(other) = "pending"

\* C13: for every submitted dataset d for which no performAnalysis has yet
\* succeeded, getAnalysisResult(d) returns a zero statistic, a zero ratio and
\* revealed = false; and a getAnalysisResult call changes no state of the
\* contract or of the oracle.
C13_Placeholder ==
    \A d \in Submitted :
        ~AnalysisCompleted(d) => getAnalysisResult(d) = <<Zero32, Zero32, FALSE>>

C13_Step ==
    lastCall'.op = "getAnalysisResult" =>
        /\ UNCHANGED <<ledgerVars, oracleVars>>
        /\ \A d \in Submitted :
               viewAnalysisResult(d) /\ ~AnalysisCompleted(d) =>
                   lastCall'.returned = <<Zero32, Zero32, FALSE>>

C13_ResultZeroUntilAnalyzed == [](C13_Placeholder) /\ [][C13_Step]_vars

\* The view has returned the placeholder for a dataset whose analysis
\* request is outstanding, after another dataset was analyzed.
C13_Witness ==
    /\ lastCall.op = "getAnalysisResult"
    /\ lastCall.returned = <<Zero32, Zero32, FALSE>>
    /\ \E d \in Submitted :
        /\ ~AnalysisCompleted(d)
        /\ \E r \in IssuedRequests \ fulfilledRequests : requestToDatasetId[r] = d
        /\ \E other \in Submitted \ {d} : AnalysisCompleted(other)

\* C14: a requestResultDecryption for a submitted dataset d by the
\* institution that submitted it succeeds only when d is analyzed; while d
\* is pending it reverts, no decryption request is issued and no entry of
\* the correlation table is written.
C14_Step ==
    lastCall'.op = "requestResultDecryption" =>
        \A d \in Submitted :
            requestResultDecryption(encryptedDatasets[d].institution, d) =>
                /\ lastCall'.outcome = Success => StatusOf(d) = "analyzed"
                /\ StatusOf(d) = "pending" =>
                    /\ lastCall'.outcome = AnalysisNotComplete
                    /\ UNCHANGED <<decryptionRequests, requestToDatasetId>>
                    /\ UNCHANGED <<ledgerVars, fulfilledRequests>>

C14_RevealRequestNeedsAnalysis == [][C14_Step]_vars

\* The owner's reveal request on a dataset whose analysis request is still
\* outstanding has been rejected.
C14_Witness ==
    /\ lastCall.op = "requestResultDecryption"
    /\ lastCall.outcome = AnalysisNotComplete
    /\ \E d \in Submitted :
        /\ StatusOf(d) = "pending"
        /\ \E r \in IssuedRequests : requestToDatasetId[r] = d
    /\ \A r \in IssuedRequests :
           decryptionRequests[r].selector = PerformAnalysisSelector

\* C15: once a decryptFinalResults has succeeded for dataset d, every further
\* requestResultDecryption(d) by the owner and every further
\* decryptFinalResults whose request id resolves to d is rejected as already
\* revealed and changes no state.  (The contract has no such rejection.)
C15_AlreadyRevealed == "Already revealed"

C15_Step ==
    lastCall'.op \in {"requestResultDecryption", "decryptFinalResults"} =>
        \A d \in Submitted :
            RevealCompleted(d) =>
                /\ requestResultDecryption(encryptedDatasets[d].institution, d) =>
                       /\ lastCall'.outcome = C15_AlreadyRevealed
                       /\ UNCHANGED <<ledgerVars, oracleVars>>
                /\ \A sender \in Relayers, in \in CallbackInputs :
                   \A r \in {q \in RequestIds : requestToDatasetId[q] = d} :
                       decryptFinalResults(sender, r, in[1], in[2]) =>
                           /\ lastCall'.outcome = C15_AlreadyRevealed
                           /\ UNCHANGED <<ledgerVars, oracleVars>>

C15_RevealAtMostOnce == [][C15_Step]_vars

\* C16: callbacks of outstanding requests may arrive in any order.  Each
\* callback changes at most the result of the dataset its request id was
\* issued for (an entry of the correlation table, once written, never
\* changes) and nothing else of the storage; and whatever the order, a
\* dataset is analyzed exactly when an analysis callback of one of its own
\* requests has succeeded, and its result is then the sum and product of its
\* own two payloads, and the zero placeholders before.
C16_ResultOfOwnPayload ==
    \A d \in Submitted :
        LET data == encryptedDatasets[d] IN
        /\ analysisResults[d].isRevealed <=> AnalysisCompleted(d)
        /\ analysisResults[d].encryptedPValue =
               IF AnalysisCompleted(d)
               THEN calculatePValue(data.encryptedGenotype, data.encryptedPhenotype).value
               ELSE Zero32
        /\ analysisResults[d].encryptedOddsRatio =
               IF AnalysisCompleted(d)
               THEN calculateOddsRatio(data.encryptedGenotype, data.encryptedPhenotype).value
               ELSE Zero32

C16_Step ==
    /\ \A r \in RequestIds :
           requestToDatasetId[r] # 0 => requestToDatasetId'[r] = requestToDatasetId[r]
    /\ lastCall'.op \in {"performAnalysis", "decryptFinalResults"} =>
        /\ UNCHANGED <<datasetCount, encryptedDatasets, requestToDatasetId>>
        /\ \A changed \in DatasetIds :
               analysisResults'[changed] # analysisResults[changed] =>
                   \A sender \in Relayers, in \in CallbackInputs :
                   \A r \in {q \in RequestIds : requestToDatasetId[q] # changed} :
                       /\ ~performAnalysis(sender, r, in[1], in[2])
                       /\ ~decryptFinalResults(sender, r, in[1], in[2])

C16_CallbackOrderIrrelevant == [](C16_ResultOfOwnPayload) /\ [][C16_Step]_vars

\* Two datasets were requested in the order 1, 2 and both are analyzed, the
\* callback of dataset 1 having arrived last.
C16_Witness ==
    /\ requestToDatasetId[1] = 1 /\ requestToDatasetId[2] = 2
    /\ AnalysisCompleted(1) /\ AnalysisCompleted(2)
    /\ lastCall.op = "performAnalysis"
    /\ lastCall.emitted = Event("ResultDecrypted", 1)

\* C17 as stated: performAnalysis and decryptFinalResults called with a
\* registered request id and a proof that does not verify the cleartexts for
\* that request fail with the proof verification failure and change no
\* state.
C17_BadProof(r, in) ==
    /\ requestToDatasetId[r] # 0
    /\ in[2] # KmsSigned \/ in[1] # Decryption(r)

C17_StepAsStated ==
    lastCall'.op \in {"performAnalysis", "decryptFinalResults"} =>
        \A sender \in Relayers, r \in RequestIds, in \in CallbackInputs :
            /\ C17_BadProof(r, in)
            /\ (\/ performAnalysis(sender, r, in[1], in[2])
                 \/ decryptFinalResults(sender, r, in[1], in[2]))
            => /\ lastCall'.outcome = ProofVerificationFailed
               /\ UNCHANGED <<ledgerVars, oracleVars>>

C17_RejectedWith(reason) ==
    /\ lastCall'.outcome = reason
    /\ UNCHANGED <<ledgerVars, oracleVars>>

C18_RecordPresent ==
    \A d \in Submitted :
        /\ encryptedDatasets[d].id = d
        /\ encryptedDatasets[d].institution \in Institutions

C18_Step ==
    \A d \in Submitted :
        /\ d <= datasetCount'
        /\ encryptedDatasets'[d] = encryptedDatasets[d]

C18_DatasetRecordImmutable == [](C18_RecordPresent) /\ [][C18_Step]_vars

\* Dataset 1 has gone through analysis and a completed reveal, and a second
\* dataset has been submitted after that.
C18_Witness ==
    /\ RevealCompleted(1)
    /\ lastCall.op = "submitEncryptedDataset"
    /\ datasetCount = MaxDatasets
    /\ encryptedDatasets[1].encryptedGenotype = Uint32(0, 2)

\* C19: with one session writing, after an uploadDataset that showed
\* success, a loadDatasets that reads the index and every record without an
\* error lists exactly one entry with the new id; its studyType is the one
\* of the form, its institution the account, its timestamp the one written
\* and its status "pending"; and every id that was listed when the upload
\* was called is still listed.
C19_RoundTrip ==
    \A w \in Writers :
        UploadSucceeded(w) /\ ListedCleanly(w) =>
            LET list == gwasDatasets[w]
                new == {i \in 1..Len(list) : list[i].id = frame[w].datasetId}
            IN
            /\ Cardinality(new) = 1
            /\ \A i \in new :
                /\ list[i].studyType = frame[w].newDataset.studyType
                /\ list[i].institution = accountOf(w)
                /\ list[i].timestamp = frame[w].datasetData.timestamp
                /\ list[i].status = "pending"
            /\ frame[w].shownBefore \subseteq ShownIds(w)

\* The second upload of the session has succeeded and been listed, the
\* first dataset having been on the list when it was called.
C19_Witness ==
    /\ UploadSucceeded("w1") /\ ListedCleanly("w1")
    /\ frame["w1"].datasetId = DatasetKey(2)
    /\ frame["w1"].shownBefore = {DatasetKey(1)}
    /\ Len(gwasDatasets["w1"]) = 2

\* C20: when two sessions upload concurrently and both read the same index
\* before either writes it back, both records are stored and both sessions
\* show success, but the index holds only one of the two new ids.
C20_LostIndexUpdate ==
    \A w1 \in Writers : \A w2 \in Writers \ {w1} :
        /\ UploadSucceeded(w1) /\ UploadSucceeded(w2)
        /\ frame[w1].keys = frame[w2].keys
        => /\ frame[w1].datasetId # frame[w2].datasetId
           /\ getData(RecordKey(frame[w1].datasetId)) # EmptyBytes
           /\ getData(RecordKey(frame[w2].datasetId)) # EmptyBytes
           /\ (frame[w1].datasetId \in IndexedIds) # (frame[w2].datasetId \in IndexedIds)

\* Both sessions read the empty index, both uploads succeeded, and each
\* session has listed the store since: one dataset is on no list.
C20_Witness ==
    /\ \A w \in Writers : UploadSucceeded(w) /\ ListedCleanly(w)
    /\ frame["w1"].keys = <<>> /\ frame["w2"].keys = <<>>
    /\ Cardinality(IndexedIds) = 1
    /\ \E w \in Writers : frame[w].datasetId \notin ShownIds(w)

\* C21: uploadDataset writes the record first and the index second.  When
\* the read or the write of the index fails after the record was written,
\* the record stays stored as written, the index is as before, the error is
\* shown and the handler is over; the record is then never rolled back nor
\* added to the index later, and no listing shows it.
C21_Step ==
    /\ \A w \in Writers :
           uploadGetKeys(w, FALSE) \/ uploadSetKeys(w, FALSE) =>
               /\ getData(RecordKey(frame[w].datasetId))
                      = toUtf8Bytes(JSONstringify(frame[w].datasetData))
               /\ kvStore' = kvStore
               /\ frame[w].datasetId \notin IndexedIds
               /\ transactionStatus'[w] = Shown("error")
               /\ pc'[w] = "idle"
    /\ \A id \in StoredIds \ (IndexedIds \cup UploadingIds) :
           /\ kvStore'[RecordKey(id)] # EmptyBytes
           /\ kvStore'[IndexKey] = kvStore[IndexKey]
                  \/ id \notin {JSONparse(toUtf8String(kvStore'[IndexKey]))[i] :
                           i \in 1..Len(JSONparse(toUtf8String(kvStore'[IndexKey])))}

C21_Unlisted ==
    \A id \in StoredIds \ IndexedIds : \A w \in Writers : id \notin ShownIds(w)

C21_PartialWriteStays == [](C21_Unlisted) /\ [][C21_Step]_vars

\* A first upload failed at the index write; a second upload then succeeded
\* and was listed: the first record is stored and is on no list.
C21_Witness ==
    /\ DatasetKey(1) \in StoredIds \ IndexedIds
    /\ UploadSucceeded("w1") /\ ListedCleanly("w1")
    /\ ShownIds("w1") = {DatasetKey(2)}

\* C22: processDataset on an id whose record is stored rewrites that record
\* with status processed and every other field as read, and writes nothing
\* else; on an id with no stored record no step of it writes anything.
C22_Step ==
    \A w \in Writers :
        frame[w].handler = "process" /\ pc[w] # "idle" /\ pc'[w] # pc[w] =>
            LET key == RecordKey(frame[w].datasetId)
                stored == getData(key)
                rewritten ==
                    [kvStore EXCEPT ![key] = toUtf8Bytes(JSONstringify(
                        [JSONparse(toUtf8String(stored)) EXCEPT !.status = "processed"]))]
            IN
            IF pc[w] = "process_setRecord" /\ pc'[w] = "load_contract"
            THEN stored # EmptyBytes /\ kvStore' = rewritten
            ELSE kvStore' = kvStore

C22_NoRecordNoWrite ==
    \A w \in Writers :
        pc[w] = "process_setRecord" => getData(RecordKey(frame[w].datasetId)) # EmptyBytes

C22_ProcessRewritesStatusOnly == [](C22_NoRecordNoWrite) /\ [][C22_Step]_vars

\* The record of the first id has been processed, and a later call with an
\* id that has no record has ended in the error status with nothing stored
\* under it.
C22_Witness ==
    /\ getData(RecordKey(DatasetKey(1))) # EmptyBytes
    /\ JSONparse(toUtf8String(getData(RecordKey(DatasetKey(1))))).status = "processed"
    /\ JSONparse(toUtf8String(getData(RecordKey(DatasetKey(1))))).studyType = "case-control"
    /\ frame["w1"].handler = "process" /\ frame["w1"].datasetId = DatasetKey(2)
    /\ pc["w1"] = "idle" /\ transactionStatus["w1"] = Shown("error")
    /\ getData(RecordKey(DatasetKey(2))) = EmptyBytes

\* C23: loadDatasets fails open on a damaged index: when the index bytes are
\* not empty and parsing them throws, the load logs, sets the empty list and
\* returns; no error status is shown.
C23_Step ==
    \A w \in Writers :
        loadKeys(w, TRUE) /\ parseKeysThrows(getData(IndexKey)) =>
            /\ gwasDatasets'[w] = <<>>
            /\ frame'[w].listed /\ frame'[w].logged
            /\ pc'[w] = "idle"
            /\ transactionStatus' = transactionStatus

C24_Parseable(datasetBytes) ==
    datasetBytes # EmptyBytes /\ toUtf8String(datasetBytes).wellFormed

C24_Step ==
    \A w \in Writers, ok \in BOOLEAN :
        loadRecord(w, ok) =>
            LET key == frame[w].loadKeys[frame[w].cursor]
                datasetBytes == getData(RecordKey(key))
                list == IF ok /\ C24_Parseable(datasetBytes)
                        THEN Append(frame[w].list,
                                    listEntry(key, toUtf8String(datasetBytes).value))
                        ELSE frame[w].list
            IN
            /\ transactionStatus' = transactionStatus
            /\ IF frame[w].cursor < Len(frame[w].loadKeys)
               THEN frame'[w].list = list /\ pc'[w] = "load_record"
               ELSE /\ Len(gwasDatasets'[w]) = Len(list)
                    /\ \A i \in 1..Len(list) :
                           \E j \in 1..Len(list) : gwasDatasets'[w][j] = list[i]
                    /\ pc'[w] = "idle"

C24_Occurrences(keys, id) == Cardinality({i \in 1..Len(keys) : keys[i] = id})

C24_Listed ==
    \A w \in Writers :
        pc[w] = "idle" /\ frame[w].listed =>
            LET keys == parseKeys(getData(IndexKey)) IN
            \A n \in 1..MaxKeys :
                LET id == DatasetKey(n)
                    datasetBytes == getData(RecordKey(id))
                    shown == {j \in 1..Len(gwasDatasets[w]) : gwasDatasets[w][j].id = id}
                IN
                /\ \A j \in shown :
                       /\ C24_Parseable(datasetBytes)
                       /\ gwasDatasets[w][j] =
                              listEntry(id, toUtf8String(datasetBytes).value)
                /\ Cardinality(shown) <= C24_Occurrences(keys, id)
                /\ ~frame[w].logged /\ C24_Parseable(datasetBytes) =>
                       Cardinality(shown) = C24_Occurrences(keys, id)

C24_BadEntriesSkipped == [](C24_Listed) /\ [][C24_Step]_vars

\* The index names a damaged record and then a readable one: the list set
\* holds the readable one only.
C24_Witness ==
    /\ getData(IndexKey) = toUtf8Bytes(JSONstringify(<<DatasetKey(2), DatasetKey(1)>>))
    /\ getData(RecordKey(DatasetKey(2))) = toUtf8Bytes(DamagedRecord)
    /\ C24_Parseable(getData(RecordKey(DatasetKey(1))))
    /\ pc["w1"] = "idle" /\ frame["w1"].listed
    /\ Len(gwasDatasets["w1"]) = 1 /\ gwasDatasets["w1"][1].id = DatasetKey(1)

\* C25: the list loadDatasets sets is ordered by timestamp, newest first:
\* of two adjacent entries the first has the timestamp that is greater or
\* equal, whatever the order of the ids in the index.
C25_NewestFirst ==
    \A w \in Writers :
        \A i \in 1..(Len(gwasDatasets[w]) - 1) :
            gwasDatasets[w][i].timestamp >= gwasDatasets[w][i + 1].timestamp

\* The index names the older record first; the list set names it last.
C25_Witness ==
    /\ getData(IndexKey) = toUtf8Bytes(JSONstringify(<<DatasetKey(1), DatasetKey(2)>>))
    /\ pc["w1"] = "idle" /\ frame["w1"].listed
    /\ Len(gwasDatasets["w1"]) = 2
    /\ gwasDatasets["w1"][1].id = DatasetKey(2) /\ gwasDatasets["w1"][1].timestamp = 2
    /\ gwasDatasets["w1"][2].id = DatasetKey(1) /\ gwasDatasets["w1"][2].timestamp = 1

\* C26: an uploadDataset or processDataset call shows pending first; while
\* it runs neither success nor error is shown; it ends by showing exactly
\* one of success and error, which is afterwards only hidden, never
\* replaced by the other; a call that has shown error writes nothing to the
\* store afterwards; and every call does end.
C26_Running(w) ==
    pc[w] \in {"upload_encrypt", "upload_signer", "upload_setRecord", "upload_getKeys",
               "upload_setKeys", "process_signer", "process_getRecord",
               "process_setRecord"}

C26_NoOutcomeYet ==
    \A w \in Writers :
        C26_Running(w) => transactionStatus[w] \in {Shown("pending"), Hidden}

C26_Step ==
    \A w \in Writers :
        /\ ~C26_Running(w) /\ C26_Running(w)' =>
               transactionStatus'[w] = Shown("pending")
        /\ C26_Running(w) /\ ~C26_Running(w)' =>
               \/ transactionStatus'[w] = Shown("success") /\ pc'[w] = "load_contract"
               \/ transactionStatus'[w] = Shown("error") /\ pc'[w] = "idle"
                      /\ kvStore' = kvStore
        /\ transactionStatus[w] = Shown("success") =>
               transactionStatus'[w] # Shown("error")
        /\ transactionStatus[w] = Shown("error") =>
               transactionStatus'[w] # Shown("success")

C26_NoWriteAfterError ==
    kvStore' # kvStore =>
        \E w \in Writers :
            /\ C26_Running(w) /\ pc'[w] # pc[w]
            /\ transactionStatus[w] # Shown("error")
            /\ transactionStatus'[w] # Shown("error")

C26_Ends == \A w \in {"w1"} : C26_Running(w) ~> ~C26_Running(w)

C26_PendingThenOneOutcome ==
    /\ [](C26_NoOutcomeYet)
    /\ [][C26_Step /\ C26_NoWriteAfterError]_vars
    /\ C26_Ends

\* A processDataset call has ended in error after an uploadDataset call of
\* the same session had ended in success.
C26_Witness ==
    /\ frame["w1"].handler = "process" /\ pc["w1"] = "idle"
    /\ transactionStatus["w1"] = Shown("error")
    /\ getData(RecordKey(DatasetKey(1))) # EmptyBytes
    /\ DatasetKey(1) \in IndexedIds

\* C27: a dataset becomes analyzed only in a successful performAnalysis of a
\* request that requestGWASAnalysis recorded for that dataset; such a
\* request is recorded only by a successful requestGWASAnalysis, which no
\* one but the owner of the dataset can make; no other call sets analyzed.
C27_AnalysisRequestsOf(d) ==
    {r \in IssuedRequests :
        /\ decryptionRequests[r].selector = PerformAnalysisSelector
        /\ requestToDatasetId[r] = d}

C27_Step ==
    /\ analysisResults' # analysisResults =>
           \A d \in DatasetIds :
               StatusOf(d) # "analyzed" /\ StatusIn(analysisResults', d) = "analyzed" =>
                   /\ lastCall'.op = "performAnalysis" /\ lastCall'.outcome = Success
                   /\ \E r \in C27_AnalysisRequestsOf(d) :
                          fulfilledRequests' = fulfilledRequests \cup {r}
    /\ decryptionRequests' # decryptionRequests \/ requestToDatasetId' # requestToDatasetId =>
           \A d \in DatasetIds :
               C27_AnalysisRequestsOf(d)' # C27_AnalysisRequestsOf(d) =>
                   /\ lastCall'.op = "requestGWASAnalysis" /\ lastCall'.outcome = Success
                   /\ lastCall'.emitted = Event("AnalysisRequested", d)
                   /\ d \in Submitted
                   /\ C27_AnalysisRequestsOf(d)'
                          = C27_AnalysisRequestsOf(d) \cup {NextRequestId}

C27_OwnerOnly ==
    \A d \in Submitted :
        \A sender \in Addresses \ {encryptedDatasets[d].institution} :
            ~ENABLED (requestGWASAnalysis(sender, d) /\ lastCall'.outcome = Success)

C27_AnalyzedOnlyByRequestedCallback == [](C27_OwnerOnly) /\ [][C27_Step]_vars

\* The second dataset is analyzed through its own request while the first,
\* which has a request as well, is still pending.
C27_Witness ==
    /\ datasetCount = 2
    /\ StatusOf(2) = "analyzed" /\ StatusOf(1) = "pending"
    /\ C27_AnalysisRequestsOf(1) # {} /\ C27_AnalysisRequestsOf(2) # {}
    /\ lastCall.op = "performAnalysis" /\ lastCall.outcome = Success

\* C28: whatever the two decrypted values, a performAnalysis with a
\* registered request id and a proof that verifies, on a dataset that is
\* still pending, succeeds and stores a statistic and a ratio; none fails
\* and leaves the dataset pending.
C28_Step ==
    lastCall'.op = "performAnalysis" =>
        \A sender \in Relayers, r \in IssuedRequests, in \in CallbackInputs :
            /\ requireValidRequest(requestToDatasetId[r])
            /\ StatusOf(requestToDatasetId[r]) = "pending"
            /\ checkSignatures(r, in[1], in[2])
            /\ performAnalysis(sender, r, in[1], in[2])
            => /\ lastCall'.outcome = Success
               /\ StatusIn(analysisResults', requestToDatasetId[r]) = "analyzed"

C28_CallbackNeverFails == [][C28_Step]_vars

\* C29: with an oracle that delivers a callback with a valid proof for
\* every request, every dataset for which a requestGWASAnalysis succeeded is
\* eventually analyzed.
C29_Requested(d) ==
    \E r \in IssuedRequests :
        /\ decryptionRequests[r].selector = PerformAnalysisSelector
        /\ requestToDatasetId[r] = d

C29_RequestedEventuallyAnalyzed ==
    \A d \in DatasetIds : C29_Requested(d) ~> (StatusOf(d) = "analyzed")

\* C30: whatever uploadDataset and processDataset calls two sessions make,
\* one after the other or interleaved, calls that fail part-way included,
\* every id the stored index holds has a stored record.
C30_IndexedIdsHaveRecords ==
    \A id \in IndexedIds : getData(RecordKey(id)) # EmptyBytes

\* The first upload failed after its record was written; the second one,
\* of the other session, is indexed and has been processed.
C30_Witness ==
    /\ DatasetKey(1) \in StoredIds \ IndexedIds
    /\ IndexedIds = {DatasetKey(2)}
    /\ JSONparse(toUtf8String(getData(RecordKey(DatasetKey(2))))).status = "processed"
    /\ frame["w1"].handler = "upload" /\ transactionStatus["w1"] = Shown("error")
    /\ frame["w2"].handler = "process"

\* C31: the status of a stored record is monotonic.  The ids uploadDataset
\* generates being distinct, once the record stored under an id has status
\* processed, no step of an uploadDataset or processDataset call of any
\* session, however the calls interleave, leaves the record with another
\* status or removes it.
C31_Processed(store, id) ==
    /\ store[RecordKey(id)] # EmptyBytes
    /\ JSONparse(toUtf8String(store[RecordKey(id)])).status = "processed"

C31_Step ==
    kvStore' # kvStore =>
        \A n \in 1..MaxKeys :
            C31_Processed(kvStore, DatasetKey(n)) => C31_Processed(kvStore', DatasetKey(n))

C31_ProcessedStaysProcessed == [][C31_Step]_vars

\* The record of the first id is processed and the other session is in an
\* upload that has just written the record of the second id as pending.
C31_Witness ==
    /\ C31_Processed(kvStore, DatasetKey(1))
    /\ pc["w2"] = "upload_getKeys" /\ frame["w2"].datasetId = DatasetKey(2)
    /\ JSONparse(toUtf8String(getData(RecordKey(DatasetKey(2))))).status = "pending"
    /\ frame["w1"].handler = "process" /\ transactionStatus["w1"] = Shown("success")

====
